---- MODULE Spec2Model ----
(***************************************************************************)
(* Model of the two cooperating subsystems of the payments library:        *)
(*   - client.NonceTracker (src/client/nonce_tracker.go): a map of         *)
(*     per-account nonces behind one mutex;                                *)
(*   - transfer.Queue (src/transfer/queue.go): a buffered channel of       *)
(*     (exec, resp) entries read by one worker goroutine (Run), with       *)
(*     confirmation polling (waitAfterSend / checkIfTransactionExists),    *)
(*     result delivery (resp), Stop and TransactionEnqueue.                *)
(* Goroutines are processes with a program counter; every channel          *)
(* operation, lock operation and external call is one step.                *)
(***************************************************************************)
EXTENDS Integers, Sequences, FiniteSets, TLC

\* ---------------------------------------------------------------- bounds
\* Goroutines calling GetNonce, accounts, calls in total, and the largest
\* pending nonce the chain reports.
NumCallers == 2
NumAccounts == 2
MaxCalls == 4
MaxPending == 1

\* Entries handed to TransactionEnqueue, the goroutines calling Stop,
\* NewQueue's size and NewQueue's timeout in seconds (the poll interval,
\* time.Second, is the unit of time).
NumItems == 3
NumStoppers == 2
QueueSize == 2
Timeout == 2

Callers == 1..NumCallers
Items == 1..NumItems
\* make(chan QueueResponse) or make(chan QueueResponse, 1), the caller's choice
RespCaps == {0, 1}
Accounts == 1..NumAccounts
Pendings == 0..MaxPending

\* No goroutine / no map entry / nil pointer.
None == 0
NoEntry == -1

VARIABLES
    \* ---- NonceTracker
    nonces,      \* nt.nonces: account -> nonce, NoEntry when the key is absent
    nonceLock,   \* nt.nonceLock: the caller holding it, None when free
    gpc,         \* per caller: position in GetNonce
    gacct,       \* per caller: the account argument
    gv,          \* per caller: the local v / nonce
    calls,       \* GetNonce calls started so far
    issued,      \* per account: values returned with a nil error, in lock order
    seeded,      \* per account: pending nonces stored by line 59, in order
    chainCalls,  \* per account: PendingNonceAt calls made
    \* ---- Queue
    queue,       \* q.queue: the buffered entries, oldest first
    queueClosed, \* close(q.queue) has run
    stopClosed,  \* q.stop is closed
    stopCloses,  \* close(q.stop) calls made
    onceDone,    \* q.once has run its function
    stopIn,      \* Stop calls that have entered q.once.Do and not left it
    stopRet,     \* Stop calls that have returned
    atStop,      \* history: the entries buffered when q.stop was closed
    epc,         \* per entry: position of its TransactionEnqueue call
    lateCall,    \* per entry: the call started after some Stop had returned
    respCap,     \* per entry: capacity of the resp channel the queue holds
    receives,    \* per entry: the caller of that channel receives from it
    delivered,   \* per entry: the QueueResponses written to its resp channel
    respCloses,  \* per entry: close(resp) calls made
    wpc,         \* the worker's position in Run
    cur,         \* the worker's entry
    tx, err,     \* the worker's tx and err
    elapsed,     \* seconds of the current ctx that have passed
    polls,       \* TransactionByHash calls made for the current entry
    pollErrors,  \* TransactionByHash calls of the current wait that failed
    sawNotPending, \* a TransactionByHash call answered pending = false
    executed,    \* the entries whose exec has been called
    crashed      \* an unrecovered panic has ended the process

nonceVars == <<nonces, nonceLock, gpc, gacct, gv, calls, issued, seeded, chainCalls>>

queueVars == <<queue, queueClosed, stopClosed, stopCloses, onceDone, stopIn, stopRet, atStop, epc,
               lateCall, respCap, receives, delivered, respCloses, wpc, cur, tx,
               err, elapsed, polls, pollErrors, sawNotPending, executed, crashed>>

vars == <<nonceVars, queueVars>>

\* ------------------------------------------------------------ NonceTracker

NonceInit ==
    /\ nonces = [a \in Accounts |-> NoEntry]
    /\ nonceLock = None
    /\ gpc = [c \in Callers |-> "idle"]
    /\ gacct = [c \in Callers |-> None]
    /\ gv = [c \in Callers |-> 0]
    /\ calls = 0
    /\ issued = [a \in Accounts |-> <<>>]
    /\ seeded = [a \in Accounts |-> <<>>]
    /\ chainCalls = [a \in Accounts |-> 0]

\* sync.Mutex: Lock blocks while another goroutine holds the mutex.
\* (MutexFreeUnguarded: the fault of a GetNonce that takes no lock.)
MutexFreeUnguarded(c) == TRUE
MutexFree(c) == nonceLock = None

\* nt.nonceLock.Lock() at the entry of GetNonce(ctx, account).
GetNonceLock(c, a) ==
    /\ gpc[c] = "idle"
    /\ calls < MaxCalls
    /\ MutexFree(c)
    /\ nonceLock' = c
    /\ gpc' = [gpc EXCEPT ![c] = "lookup"]
    /\ gacct' = [gacct EXCEPT ![c] = a]
    /\ calls' = calls + 1
    /\ UNCHANGED <<nonces, gv, issued, seeded, chainCalls, queueVars>>

\* v, ok := nt.nonces[account]: ok reports whether the map holds the key.
\* (CachedNever: the fault of a lookup that never finds the entry.)
CachedNever(a) == FALSE
Cached(a) == nonces[a] # NoEntry

\* if v, ok := nt.nonces[account]; ok { v++ ...
GetNonceLookup(c) ==
    /\ gpc[c] = "lookup"
    /\ IF Cached(gacct[c])
          THEN /\ gv' = [gv EXCEPT ![c] = nonces[gacct[c]] + 1]
               /\ gpc' = [gpc EXCEPT ![c] = "store"]
          ELSE /\ gpc' = [gpc EXCEPT ![c] = "query"]
               /\ UNCHANGED gv
    /\ UNCHANGED <<nonces, nonceLock, gacct, calls, issued, seeded, chainCalls, queueVars>>

\* The deferred nt.nonceLock.Unlock(): only the holder's unlock frees it.
Unlock(c) == IF nonceLock = c THEN None ELSE nonceLock

\* nt.nonces[account] = v; return v, nil
GetNonceStore(c) ==
    /\ gpc[c] = "store"
    /\ nonces' = [nonces EXCEPT ![gacct[c]] = gv[c]]
    /\ issued' = [issued EXCEPT ![gacct[c]] = Append(@, gv[c])]
    /\ nonceLock' = Unlock(c)
    /\ gpc' = [gpc EXCEPT ![c] = "idle"]
    /\ UNCHANGED <<gacct, gv, calls, seeded, chainCalls, queueVars>>

\* nonce, err := nt.client.PendingNonceAt(ctx, account); on an error the
\* call returns it and stores nothing.
GetNonceQuery(c) ==
    /\ gpc[c] = "query"
    /\ chainCalls' = [chainCalls EXCEPT ![gacct[c]] = @ + 1]
    /\ \/ /\ gpc' = [gpc EXCEPT ![c] = "idle"]
          /\ nonceLock' = Unlock(c)
          /\ UNCHANGED gv
       \/ \E p \in Pendings :
             /\ gv' = [gv EXCEPT ![c] = p]
             /\ gpc' = [gpc EXCEPT ![c] = "seed"]
             /\ UNCHANGED nonceLock
    /\ UNCHANGED <<nonces, gacct, calls, issued, seeded, queueVars>>

\* The value stored and returned for a reported pending nonce p: p itself.
\* (SeedIncremented: the fault of incrementing on the seeding path too.)
SeedIncremented(p) == p + 1
Seed(p) == p

\* nt.nonces[account] = nonce; return nonce, nil
GetNonceSeed(c) ==
    /\ gpc[c] = "seed"
    /\ nonces' = [nonces EXCEPT ![gacct[c]] = Seed(gv[c])]
    /\ issued' = [issued EXCEPT ![gacct[c]] = Append(@, Seed(gv[c]))]
    /\ seeded' = [seeded EXCEPT ![gacct[c]] = Append(@, Seed(gv[c]))]
    /\ nonceLock' = Unlock(c)
    /\ gpc' = [gpc EXCEPT ![c] = "idle"]
    /\ UNCHANGED <<gacct, gv, calls, chainCalls, queueVars>>

GetNonce ==
    \E c \in Callers :
        \/ \E a \in Accounts : GetNonceLock(c, a)
        \/ GetNonceLookup(c)
        \/ GetNonceStore(c)
        \/ GetNonceQuery(c)
        \/ GetNonceSeed(c)

\* ------------------------------------------------------------------- Queue

\* A nil *types.Transaction; the transaction entry i's exec returns is i.
NilTx == 0
TxOf(i) == i

\* QueueResponse{tx, err}
Response(t, e) == [tx |-> t, err |-> e]

\* The goroutine that makes entry i's TransactionEnqueue call: each producer
\* makes two calls, one after the other.
Producer(i) == (i + 1) \div 2
Returned(i) == epc[i] \in {"ok", "closed"}
EarlierReturned(i) ==
    \A j \in Items : (j < i /\ Producer(j) = Producer(i)) => Returned(j)

\* NewQueue(size, cl, timeout): empty buffer, open stop channel, unused once.
QueueInit ==
    /\ queue = <<>>
    /\ queueClosed = FALSE
    /\ stopClosed = FALSE
    /\ stopCloses = 0
    /\ onceDone = FALSE
    /\ stopIn = 0
    /\ stopRet = 0
    /\ atStop = {}
    /\ epc = [i \in Items |-> "idle"]
    /\ lateCall = [i \in Items |-> FALSE]
    /\ respCap = [i \in Items |-> 0]
    /\ receives = [i \in Items |-> TRUE]
    /\ delivered = [i \in Items |-> <<>>]
    /\ respCloses = [i \in Items |-> 0]
    /\ wpc = "init"
    /\ cur = None
    /\ tx = NilTx
    /\ err = "nil"
    /\ elapsed = 0
    /\ polls = 0
    /\ pollErrors = 0
    /\ sawNotPending = FALSE
    /\ executed = {}
    /\ crashed = FALSE

workerVars == <<wpc, cur, tx, err, elapsed, polls, pollErrors, sawNotPending, executed>>
respVars == <<delivered, respCloses>>
stopVars == <<stopClosed, stopCloses, onceDone, stopIn, stopRet, atStop>>
callVars == <<epc, lateCall, respCap, receives>>

\* ---- Stop

\* Stop is entered by one more goroutine: q.once.Do is about to take the
\* Once's mutex.
StopCall ==
    /\ ~crashed
    /\ stopIn + stopRet < NumStoppers
    /\ stopIn' = stopIn + 1
    /\ UNCHANGED <<nonceVars, queue, queueClosed, stopClosed, stopCloses, onceDone,
                   stopRet, atStop, callVars, respVars, workerVars, crashed>>

\* The entries held by the buffer q.
Buffered(q) == {q[k] : k \in 1..Len(q)}

\* sync.Once: the function runs in the first Do only.
\* (OnceRunsAlways: the fault of a Stop that closes q.stop without the Once.)
OnceRunsAlways == TRUE
OnceRuns == ~onceDone

\* q.once.Do(func() { close(q.stop) }), under the Once's mutex, and the
\* return of Stop; closing a closed channel panics.
StopOnce ==
    /\ ~crashed
    /\ stopIn > 0
    /\ stopIn' = stopIn - 1
    /\ IF OnceRuns
          THEN /\ stopCloses' = stopCloses + 1
               /\ stopClosed' = TRUE
               /\ onceDone' = TRUE
               /\ crashed' = stopClosed
               /\ stopRet' = IF stopClosed THEN stopRet ELSE stopRet + 1
               /\ atStop' = IF stopClosed THEN atStop ELSE Buffered(queue)
          ELSE /\ stopRet' = stopRet + 1
               /\ UNCHANGED <<stopCloses, stopClosed, onceDone, atStop, crashed>>
    /\ UNCHANGED <<nonceVars, queue, queueClosed, callVars, respVars, workerVars>>

StopReturned == stopRet > 0

\* ---- TransactionEnqueue

\* select { case <-q.stop: ... default: ... }: the default branch is taken
\* only when no case is ready, and a closed channel is always ready.
\* (StopCaseNeverReady: the fault of an enqueue that does not look at q.stop.)
StopCaseNeverReady == FALSE
StopCaseReady == stopClosed

\* TransactionEnqueue(exec, resp) with a fresh resp channel of capacity c,
\* by a caller that will (r) or will not receive from it: the select of
\* line 144. The channel of a rejected call never reaches the queue.
EnqueueSelect(i, c, r) ==
    /\ ~crashed
    /\ epc[i] = "idle"
    /\ EarlierReturned(i)
    /\ lateCall' = [lateCall EXCEPT ![i] = StopReturned]
    /\ epc' = [epc EXCEPT ![i] = IF StopCaseReady THEN "closed" ELSE "push"]
    /\ IF epc'[i] = "push"
          THEN /\ respCap' = [respCap EXCEPT ![i] = c]
               /\ receives' = [receives EXCEPT ![i] = r]
          ELSE /\ c = 0 /\ r
               /\ UNCHANGED <<respCap, receives>>
    /\ UNCHANGED <<nonceVars, queue, queueClosed, stopVars, respVars, workerVars, crashed>>

\* q.queue <- queueEntry{exec, resp}: blocks while the buffer is full,
\* panics when q.queue is closed (also when it is closed while blocked).
EnqueuePush(i) ==
    /\ ~crashed
    /\ epc[i] = "push"
    /\ IF queueClosed
          THEN /\ crashed' = TRUE
               /\ epc' = [epc EXCEPT ![i] = "panic"]
               /\ UNCHANGED queue
          ELSE /\ Len(queue) < QueueSize
               /\ queue' = Append(queue, i)
               /\ epc' = [epc EXCEPT ![i] = "ok"]
               /\ UNCHANGED crashed
    /\ UNCHANGED <<nonceVars, queueClosed, stopVars, lateCall, respCap, receives,
                   respVars, workerVars>>

\* ---- the caller's side of resp

\* The caller of an accepted entry, if it receives at all, receives once
\* from its resp channel: it is ready to take a value as long as it has
\* been handed none.
Receiving(i) == receives[i] /\ epc[i] = "ok" /\ delivered[i] = <<>>

\* ch <- v can complete: the channel's buffer has room (a value stays
\* buffered until the caller takes it, which the queue never sees) or the
\* caller is receiving. (RespReadyAlways: a send that never blocks.)
RespReadyAlways(i) == TRUE
RespReady(i) == Len(delivered[i]) < respCap[i] \/ Receiving(i)

\* ---- Run

\* go q.Run()
RunStart ==
    /\ ~crashed
    /\ wpc = "init"
    /\ wpc' = "select"
    /\ UNCHANGED <<nonceVars, queue, queueClosed, stopVars, callVars, respVars,
                   cur, tx, err, elapsed, polls, pollErrors, sawNotPending, executed, crashed>>

\* case <-q.stop: close(q.queue)
RunSelectStop ==
    /\ ~crashed
    /\ wpc = "select"
    /\ stopClosed
    /\ queueClosed' = TRUE
    /\ wpc' = "drain"
    /\ UNCHANGED <<nonceVars, queue, stopVars, callVars, respVars,
                   cur, tx, err, elapsed, polls, pollErrors, sawNotPending, executed, crashed>>

\* A receive from q.queue takes the oldest buffered entry.
\* (DequeueNewest: the fault of a buffer read from its newest end.)
DequeueNewest(q) == q[Len(q)]
Dequeue(q) == Head(q)
Rest(q, i) == SelectSeq(q, LAMBDA j : j # i)

\* case entry := <-q.queue
RunSelectEntry ==
    /\ ~crashed
    /\ wpc = "select"
    /\ queue # <<>>
    /\ cur' = Dequeue(queue)
    /\ queue' = Rest(queue, cur')
    /\ wpc' = "exec"
    /\ UNCHANGED <<nonceVars, queueClosed, stopVars, callVars, respVars,
                   tx, err, elapsed, polls, pollErrors, sawNotPending, executed, crashed>>

\* if err != nil { q.resp(nil, err, entry.resp); continue }: after a failed
\* send the worker goes to resp, not to waitAfterSend and not back to the
\* select. (AfterSendFailureWaits: the fault of a missing err check;
\* AfterSendFailureSkipsResp: the fault of a continue without the resp.)
AfterSendFailureWaits == "wait"
AfterSendFailureSkipsResp == "select"
AfterSendFailure == "resp"

\* tx, err := entry.exec(): the caller's send operation returns a
\* transaction and no error, or an error and no transaction.
RunExec ==
    /\ ~crashed
    /\ wpc = "exec"
    /\ executed' = executed \cup {cur}
    /\ polls' = 0
    /\ pollErrors' = 0
    /\ sawNotPending' = FALSE
    /\ \/ /\ tx' = TxOf(cur)
          /\ err' = "nil"
          /\ elapsed' = 0
          /\ wpc' = "wait"
       \/ /\ tx' = NilTx
          /\ err' = "ErrSend"
          /\ elapsed' = 0
          /\ wpc' = AfterSendFailure
    /\ UNCHANGED <<nonceVars, queue, queueClosed, stopVars, callVars, respVars, cur, crashed>>

\* ---- waitAfterSend / checkIfTransactionExists
\* Time is counted in seconds since the ctx was made; a TransactionByHash
\* call takes no time at this scale. With e seconds gone, the next
\* time.After(time.Second) fires at e + 1 and ctx.Done() at Timeout; when
\* the two fall together the select may take either. A select takes a case
\* that is ready when it is entered, and a worker blocked in it is woken by
\* the first case to become ready: once q.stop is closed no later tick or
\* deadline is taken, and only a deadline that has already passed competes
\* with the closed q.stop.

\* case <-ctx.Done() can be the next case to become ready.
\* (DeadlineReadyAtOnce: the fault of a ctx that is cancelled before the wait.)
DeadlineReadyAtOnce(e) == TRUE
DeadlineReady(e) == e + 1 >= Timeout

\* case <-time.After(time.Second) can be the next case to become ready.
TickReady(e) == e < Timeout

\* ctx.Done() is ready: the deadline has passed.
CtxDone(e) == e >= Timeout

Max(a, b) == IF a >= b THEN a ELSE b

\* What checkIfTransactionExists returns on ctx.Done():
\* ErrTrasactionMissing. (WaitTimeoutNil: the fault of a timeout that is
\* reported as a confirmation.)
WaitTimeoutNil == "nil"
WaitTimeoutResult == "ErrTrasactionMissing"

\* case <-ctx.Done(): return fmt.Errorf("...: %w", ErrTrasactionMissing)
WaitTimeout ==
    /\ ~crashed
    /\ wpc = "wait"
    /\ CtxDone(elapsed) \/ (~stopClosed /\ DeadlineReady(elapsed))
    /\ elapsed' = Max(elapsed, Timeout)
    /\ err' = WaitTimeoutResult
    /\ wpc' = "resp"
    /\ UNCHANGED <<nonceVars, queue, queueClosed, stopVars, callVars, respVars,
                   cur, tx, polls, pollErrors, sawNotPending, executed, crashed>>

\* What checkIfTransactionExists returns on the closed q.stop: nil.
\* (WaitStopFails: the fault of reporting the shutdown as a failure.)
WaitStopFails == "ErrTrasactionMissing"
WaitStopResult == "nil"

\* case <-q.stop: return nil
WaitStop ==
    /\ ~crashed
    /\ wpc = "wait"
    /\ stopClosed
    /\ err' = WaitStopResult
    /\ wpc' = "resp"
    /\ UNCHANGED <<nonceVars, queue, queueClosed, stopVars, callVars, respVars,
                   cur, tx, elapsed, polls, pollErrors, sawNotPending, executed, crashed>>

\* What q.bc.TransactionByHash answers: an error, pending or not pending.
Answers == {"error", "pending", "notpending"}

\* if err != nil { log...; continue }: a failed call is logged and the loop
\* goes on. (AfterPollErrorReturns: the fault of returning on a failed call.)
AfterPollErrorReturns == "resp"
AfterPollError == "wait"

\* case <-time.After(time.Second): _, pending, err := q.bc.TransactionByHash;
\* an error is logged and the loop continues, pending loops, not pending
\* returns nil.
WaitPoll ==
    /\ ~crashed
    /\ wpc = "wait"
    /\ ~stopClosed
    /\ TickReady(elapsed)
    /\ elapsed' = elapsed + 1
    /\ polls' = polls + 1
    /\ \E ans \in Answers :
          CASE ans = "notpending" ->
                  /\ sawNotPending' = TRUE
                  /\ err' = "nil"
                  /\ wpc' = "resp"
                  /\ UNCHANGED pollErrors
            [] ans = "error" ->
                  /\ pollErrors' = pollErrors + 1
                  /\ wpc' = AfterPollError
                  /\ UNCHANGED <<sawNotPending, err>>
            [] ans = "pending" ->
                  UNCHANGED <<pollErrors, sawNotPending, err, wpc>>
    /\ UNCHANGED <<nonceVars, queue, queueClosed, stopVars, callVars, respVars,
                   cur, tx, executed, crashed>>

\* ---- resp

\* ch <- QueueResponse{tx, err}: panics on a closed channel, else blocks
\* until the send can complete.
RespSend ==
    /\ ~crashed
    /\ wpc = "resp"
    /\ IF respCloses[cur] > 0
          THEN /\ crashed' = TRUE
               /\ wpc' = "panic"
               /\ UNCHANGED delivered
          ELSE /\ RespReady(cur)
               /\ delivered' = [delivered EXCEPT ![cur] = Append(@, Response(tx, err))]
               /\ wpc' = "close"
               /\ UNCHANGED crashed
    /\ UNCHANGED <<nonceVars, queue, queueClosed, stopVars, callVars, respCloses,
                   cur, tx, err, elapsed, polls, pollErrors, sawNotPending, executed>>

\* Where Run goes on after q.resp returns: the range loop of the shutdown
\* branch, or (after the send failure's resp by its continue, after the
\* last statement of the loop body by the loop) the top of the for loop.
\* (AfterRespFallsThrough: the fault of a missing continue at line 87.)
AfterRespFallsThrough ==
    IF queueClosed THEN "drain" ELSE IF err = "ErrSend" THEN "wait" ELSE "select"
AfterResp == IF queueClosed THEN "drain" ELSE "select"

\* At the head of either loop of Run the locals of the last iteration are dead.
LoopHead(pc) == pc \in {"select", "drain"}

\* close(ch), then back in Run; closing a closed channel panics. The queue
\* holds no reference to the channel after the close.
RespClose ==
    /\ ~crashed
    /\ wpc = "close"
    /\ IF respCloses[cur] > 0
          THEN /\ crashed' = TRUE
               /\ wpc' = "panic"
               /\ UNCHANGED <<respCloses, respCap, cur, tx, err, elapsed, polls,
                              pollErrors, sawNotPending>>
          ELSE /\ respCloses' = [respCloses EXCEPT ![cur] = @ + 1]
               /\ respCap' = [respCap EXCEPT ![cur] = 0]
               /\ wpc' = AfterResp
               /\ IF LoopHead(wpc')
                     THEN /\ cur' = None
                          /\ tx' = NilTx
                          /\ err' = "nil"
                          /\ elapsed' = 0
                          /\ polls' = 0
                          /\ pollErrors' = 0
                          /\ sawNotPending' = FALSE
                     ELSE UNCHANGED <<cur, tx, err, elapsed, polls, pollErrors, sawNotPending>>
               /\ UNCHANGED crashed
    /\ UNCHANGED <<nonceVars, queue, queueClosed, stopVars, epc, lateCall, receives,
                   delivered, executed>>

\* ---- the shutdown branch of Run

\* for entry := range q.queue { q.resp(nil, ErrQueueClosed, entry.resp) }
RunDrainEntry ==
    /\ ~crashed
    /\ wpc = "drain"
    /\ queue # <<>>
    /\ cur' = Dequeue(queue)
    /\ queue' = Rest(queue, cur')
    /\ tx' = NilTx
    /\ err' = "ErrQueueClosed"
    /\ wpc' = "resp"
    /\ UNCHANGED <<nonceVars, queueClosed, stopVars, callVars, respVars,
                   elapsed, polls, pollErrors, sawNotPending, executed, crashed>>

\* A range over a closed channel ends when the channel holds no more values.
\* (RangeDoneAtOnce: the fault of a shutdown branch that returns after the
\* close without draining.)
RangeDoneAtOnce(q) == TRUE
RangeDone(q) == q = <<>>

\* The range loop ends on the closed, empty channel: return
RunReturn ==
    /\ ~crashed
    /\ wpc = "drain"
    /\ RangeDone(queue)
    /\ wpc' = "done"
    /\ UNCHANGED <<nonceVars, queue, queueClosed, stopVars, callVars, respVars,
                   cur, tx, err, elapsed, polls, pollErrors, sawNotPending, executed, crashed>>

Run ==
    \/ RunStart
    \/ RunSelectStop
    \/ RunSelectEntry
    \/ RunExec
    \/ WaitTimeout
    \/ WaitStop
    \/ WaitPoll
    \/ RespSend
    \/ RespClose
    \/ RunDrainEntry
    \/ RunReturn

Stop == StopCall \/ StopOnce

TransactionEnqueue ==
    \E i \in Items :
        \/ \E c \in RespCaps, r \in BOOLEAN : (c > 0 => r) /\ EnqueueSelect(i, c, r)
        \/ EnqueuePush(i)

QueueNext == Run \/ Stop \/ TransactionEnqueue

\* ---------------------------------------------------------- specifications

Init == NonceInit /\ QueueInit

NonceNext == GetNonce

Next == NonceNext \/ QueueNext

\* The whole program.
Spec == Init /\ [][Next]_vars

\* The NonceTracker alone and the Queue alone.
SpecNonce == Init /\ [][NonceNext]_vars
SpecQueue == Init /\ [][QueueNext]_vars

\* The Go scheduler runs every runnable goroutine: the worker (unless its
\* send to a resp channel cannot complete) and a caller blocked in its push
\* go on. Whether anyone calls Stop or TransactionEnqueue is left open.
FairQueue ==
    /\ SpecQueue
    /\ WF_vars(Run)
    /\ \A i \in Items : WF_vars(EnqueuePush(i))

\* ------------------------------------------------------------------ claims

InQueue(i) == \E k \in 1..Len(queue) : queue[k] = i

\* C1: for every account the values GetNonce returned without error are, in
\* the order the calls took the lock, exactly p, p+1, p+2, ... where p is the
\* pending nonce of the one chain query that seeded the account: no repeat,
\* no gap, and nothing is issued before the account is seeded.
C1_IssuedSequential ==
    \A a \in Accounts :
        /\ Len(seeded[a]) <= 1
        /\ (seeded[a] = <<>>) => (issued[a] = <<>>)
        /\ (seeded[a] # <<>>) =>
              \A k \in 1..Len(issued[a]) : issued[a][k] = seeded[a][1] + k - 1

\* Every caller receives from its resp channel.
AllReceive == \A i \in Items : receives[i]

\* Three calls have been served on one account, two of them by the cached path.
C1_Witness ==
    \E a \in Accounts : Len(issued[a]) >= 3 /\ seeded[a] # <<>>

\* C2: with every caller receiving from its resp channel, every entry
\* TransactionEnqueue accepted (it returned nil) is eventually handed a
\* QueueResponse on its resp channel. (Refuted: the push
\* of another call that passed the stop check panics on the closed q.queue
\* and the process ends with the accepted entry unanswered.)
C2_AcceptedEventuallyAnswered ==
    []AllReceive => \A i \in Items : (epc[i] = "ok") ~> (delivered[i] # <<>>)

\* C3: every resp channel gets at most one QueueResponse and at most one
\* close, the close is the worker's next step after the write, nothing is
\* closed unwritten, and resp never panics on a closed channel.
C3_RespSingleUse ==
    /\ wpc # "panic"
    /\ \A i \in Items :
          /\ Len(delivered[i]) <= 1
          /\ respCloses[i] <= 1
          /\ (respCloses[i] = 1) => (Len(delivered[i]) = 1)
          /\ (Len(delivered[i]) = 1 /\ respCloses[i] = 0) => (wpc = "close" /\ cur = i)

\* Three entries have been answered and closed, one by the send failure
\* path, one by the timeout path and one by the shutdown drain.
C3_Witness ==
    \E i, j, k \in Items :
        /\ respCloses[i] = 1 /\ delivered[i][1].err = "ErrSend"
        /\ respCloses[j] = 1 /\ delivered[j][1].err = "ErrTrasactionMissing"
        /\ respCloses[k] = 1 /\ delivered[k][1].err = "ErrQueueClosed"

\* C4: when one producer's call for entry A returned nil before its call for
\* entry B started, exec of B has not been called unless exec of A has.
C4_Fifo ==
    \A A, B \in Items :
        (Producer(A) = Producer(B) /\ A < B /\ epc[A] = "ok" /\ B \in executed)
            => A \in executed

\* A producer's two entries have both been executed.
C4_Witness ==
    \E A, B \in Items :
        Producer(A) = Producer(B) /\ A < B /\ A \in executed /\ B \in executed

\* C5: an entry whose exec has been called and whose resp channel is not yet
\* written and closed is the worker's current entry; so when exec is about
\* to be called every earlier executed entry is answered and closed.
C5_OneInFlight ==
    /\ \A i \in executed : (respCloses[i] = 0) => (cur = i /\ wpc \in {"wait", "resp", "close"})
    /\ (wpc = "exec") =>
          \A i \in executed : Len(delivered[i]) = 1 /\ respCloses[i] = 1

\* exec of an entry is about to be called after another entry was executed.
C5_Witness == wpc = "exec" /\ executed # {}

\* C6: a TransactionEnqueue call that started after a Stop call had returned
\* has returned ErrQueueClosed at once: it never waits at the push, its entry
\* is not in the buffer nor with the worker, is not executed and its resp
\* channel is not written nor closed.
C6_LateCallRejected ==
    \A i \in Items :
        lateCall[i] =>
            /\ epc[i] = "closed"
            /\ ~InQueue(i)
            /\ cur # i
            /\ i \notin executed
            /\ delivered[i] = <<>>
            /\ respCloses[i] = 0

\* A call that started after Stop returned got ErrQueueClosed.
C6_Witness == \E i \in Items : lateCall[i] /\ epc[i] = "closed"

\* C7: however many Stop calls are made, q.stop is closed at most once (a
\* second close would panic), it is closed once a Stop call has returned, no
\* Stop call panics, and once closed it stays closed.
C7_StopOnce ==
    /\ [](/\ stopCloses <= 1
          /\ stopClosed <=> (stopCloses = 1)
          /\ (stopRet > 0) => stopClosed
          /\ onceDone <=> stopClosed)
    /\ [][stopClosed => stopClosed']_vars

\* Every Stop call has returned and q.stop was closed once.
C7_Witness == stopRet = NumStoppers /\ stopRet >= 2 /\ stopCloses = 1

\* C8: after a failed send the worker makes no TransactionByHash call, does
\* not enter the wait, writes the response (nil, that error) and then is
\* back at the select of Run.
C8_SendFailure ==
    /\ []((err = "ErrSend") =>
            /\ wpc \in {"resp", "close"}
            /\ polls = 0
            /\ tx = NilTx
            /\ (wpc = "close") => (delivered[cur] = <<Response(NilTx, "ErrSend")>>))
    /\ [][(err = "ErrSend" /\ wpc = "close" /\ wpc' # "close") => (wpc' = "select")]_vars

\* After a send failure was answered the worker is executing a later entry.
C8_Witness ==
    /\ wpc = "exec"
    /\ \E i \in Items : delivered[i] = <<Response(NilTx, "ErrSend")>> /\ respCloses[i] = 1

\* C9: every QueueResponse written carries a transaction and no error, or an
\* error and no transaction. (Refuted: on a timed-out wait Run passes the
\* tx of the send together with ErrTrasactionMissing to resp.)
C9_HandleXorFailure ==
    \A i \in Items : \A k \in 1..Len(delivered[i]) :
        (delivered[i][k].tx = NilTx) <=> (delivered[i][k].err # "nil")

\* C10: a confirmation wait never runs past Timeout seconds of its own ctx
\* nor makes more than Timeout polls; a wait that ends with no poll having
\* answered not pending and with q.stop open ends at Timeout with
\* ErrTrasactionMissing; a wait ends with that error only at Timeout, after
\* the polls of its own Timeout seconds; and the error is what is written.
C10_WaitBounded ==
    /\ []((wpc = "wait") => (elapsed <= Timeout /\ polls <= Timeout))
    /\ []((wpc \in {"resp", "close"} /\ err = "ErrTrasactionMissing") =>
            /\ elapsed = Timeout
            /\ polls >= Timeout - 1
            /\ polls <= Timeout
            /\ ~sawNotPending
            /\ (wpc = "close") => (delivered[cur][1].err = "ErrTrasactionMissing"))
    /\ [][(wpc = "wait" /\ wpc' # "wait" /\ ~sawNotPending' /\ ~stopClosed) =>
             (wpc' = "resp" /\ err' = "ErrTrasactionMissing" /\ elapsed' = Timeout)]_vars

\* A second entry's wait has timed out after an earlier entry's wait did.
C10_Witness ==
    /\ wpc = "close"
    /\ err = "ErrTrasactionMissing"
    /\ ~stopClosed
    /\ \E j \in Items : j # cur /\ respCloses[j] = 1
                        /\ delivered[j][1].err = "ErrTrasactionMissing"

\* C11: when q.stop is closed while the worker waits for an entry's
\* confirmation and the entry's deadline has not passed, the wait ends with
\* nil at that second, without a further poll, and the response written is
\* the transaction with no error, never ErrTrasactionMissing.
C11_StopEndsWait ==
    /\ [][(wpc = "wait" /\ stopClosed /\ elapsed < Timeout /\ wpc' # "wait") =>
             /\ wpc' = "resp"
             /\ err' = "nil"
             /\ tx' = TxOf(cur) /\ cur' = cur
             /\ elapsed' = elapsed /\ polls' = polls]_vars
    /\ []((wpc = "close" /\ tx # NilTx /\ ~sawNotPending /\ elapsed < Timeout) =>
            (stopClosed /\ delivered[cur] = <<Response(TxOf(cur), "nil")>>))

\* A wait was ended by Stop before its deadline and its response is written.
C11_Witness ==
    /\ wpc = "close"
    /\ stopClosed
    /\ ~sawNotPending
    /\ polls >= 1 /\ elapsed < Timeout
    /\ delivered[cur] = <<Response(TxOf(cur), "nil")>>

\* C12: an entry that is in the buffer when Stop closes q.stop is never
\* executed, and the response it gets is ErrQueueClosed: the worker starts no
\* send operation of a buffered entry after Stop. (Fails: with q.stop closed
\* and q.queue not empty both cases of Run's select are ready and the select
\* takes either, so a buffered entry can still be taken and executed.)
C12_BufferedAtStopRejected ==
    \A i \in atStop :
        /\ i \notin executed
        /\ delivered[i] # <<>> => delivered[i][1].err = "ErrQueueClosed"

\* C13: a GetNonce call that finds no entry queries the chain; when the
\* query fails the call returns with nt.nonces and the issued values as they
\* were and the lock free, so an account stays without an entry until a
\* query succeeds and each call until then queries again; when the query
\* reports p, p is stored and returned as it is.
C13_SeedOrNothing ==
    /\ [][\A c \in Callers :
            /\ (gpc[c] = "lookup" /\ nonces[gacct[c]] = NoEntry /\ gpc'[c] # "lookup")
                   => (gpc'[c] = "query" /\ chainCalls' = chainCalls)
            /\ (gpc[c] = "query" /\ gpc'[c] # "query")
                   => chainCalls'[gacct[c]] = chainCalls[gacct[c]] + 1
            /\ (gpc[c] = "query" /\ gpc'[c] = "idle")
                   => (nonces' = nonces /\ issued' = issued /\ seeded' = seeded
                       /\ nonceLock' = None)
            /\ (gpc[c] = "seed" /\ gpc'[c] = "idle")
                   => /\ nonces'[gacct[c]] = gv[c]
                      /\ issued'[gacct[c]] = Append(issued[gacct[c]], gv[c])
                      /\ nonceLock' = None]_vars
    /\ [](\A a \in Accounts : nonces[a] = NoEntry <=> issued[a] = <<>>)

\* An account was seeded by a query that followed a failed one.
C13_Witness ==
    \E a \in Accounts :
        /\ chainCalls[a] >= 2
        /\ Len(seeded[a]) = 1
        /\ issued[a] = seeded[a]
        /\ nonces[a] = seeded[a][1]

\* C14: an account is seeded at most once; once it has an entry no GetNonce
\* call queries the chain for it and every call for it returns the next
\* value, so two callers of an account without an entry make one successful
\* query between them and get p and p + 1.
C14_QueryOnlyToSeed ==
    /\ [][\A a \in Accounts : nonces[a] # NoEntry => chainCalls'[a] = chainCalls[a]]_vars
    /\ [][\A c \in Callers :
            (gpc[c] = "lookup" /\ nonces[gacct[c]] # NoEntry /\ gpc'[c] # "lookup")
               => (gpc'[c] = "store" /\ gv'[c] = nonces[gacct[c]] + 1)]_vars
    /\ [][\A c \in Callers :
            (gpc[c] = "store" /\ gpc'[c] # "store")
               => (gpc'[c] = "idle" /\ issued'[gacct[c]] = Append(issued[gacct[c]], gv[c]))]_vars
    /\ [](\A a \in Accounts :
            /\ Len(seeded[a]) <= 1
            /\ \A k \in 1..Len(issued[a]) : issued[a][k] = seeded[a][1] + k - 1)

\* Two callers asked for the same account, one successful query was made
\* and they hold its result and the next value.
C14_Witness ==
    \E a \in Accounts, p \in Pendings :
        /\ gacct[1] = a /\ gacct[2] = a
        /\ gpc[1] = "idle" /\ gpc[2] = "idle"
        /\ chainCalls[a] = 1
        /\ issued[a] = <<p, p + 1>>
        /\ {gv[1], gv[2]} = {p, p + 1}

\* The polls of the current wait were all answered pending, nothing else
\* ended the wait, and its response is written.
AllPendingAnswered ==
    /\ wpc = "close"
    /\ tx # NilTx
    /\ ~stopClosed
    /\ pollErrors = 0
    /\ ~sawNotPending

\* C15 as stated: with a timeout of 2 seconds, when the chain answers pending
\* to the first 3 polls and not pending afterwards, the response is written
\* at 3 seconds with the transaction and no error. (Fails: the wait is cut
\* at the 2 seconds of the timeout, before a third poll.)
C15_ConfirmedAtThreeSeconds ==
    (/\ Timeout = 2
     /\ wpc = "close"
     /\ tx # NilTx
     /\ ~stopClosed
     /\ pollErrors = 0
     /\ sawNotPending => polls > 3)
        => (elapsed = 3 /\ delivered[cur] = <<Response(TxOf(cur), "nil")>>)

\* C15 amended: when the chain answers pending to every poll made, the wait
\* ends when the timeout expires, after Timeout - 1 or Timeout polls, and
\* the response written then carries ErrTrasactionMissing.
C15_PendingEndsAtTimeout ==
    AllPendingAnswered =>
        /\ elapsed = Timeout
        /\ polls \in {Timeout - 1, Timeout}
        /\ delivered[cur] = <<Response(TxOf(cur), "ErrTrasactionMissing")>>

\* A wait whose polls were all answered pending has ended.
C15_Witness ==
    /\ AllPendingAnswered
    /\ polls = Timeout
    /\ delivered[cur][1].err = "ErrTrasactionMissing"

\* C18: a failed TransactionByHash call leaves the worker in the wait with
\* its result untouched, and a wait ends only by a call that answers not
\* pending (nil), by the deadline (ErrTrasactionMissing) or by the closed
\* q.stop (nil).
C18_PollErrorRetried ==
    /\ [][(wpc = "wait" /\ pollErrors' # pollErrors) =>
             /\ pollErrors' = pollErrors + 1
             /\ wpc' = "wait"
             /\ err' = err /\ tx' = tx /\ cur' = cur
             /\ sawNotPending' = sawNotPending
             /\ delivered' = delivered]_vars
    /\ [][(wpc = "wait" /\ wpc' # "wait") =>
             /\ wpc' = "resp"
             /\ pollErrors' = pollErrors
             /\ \/ sawNotPending' /\ polls' = polls + 1 /\ err' = "nil"
                \/ elapsed' >= Timeout /\ polls' = polls /\ err' = "ErrTrasactionMissing"
                \/ stopClosed /\ polls' = polls /\ err' = "nil"]_vars

\* A wait went on after a failed poll and ended by a later poll that
\* answered not pending.
C18_Witness ==
    /\ wpc = "close"
    /\ pollErrors >= 1
    /\ sawNotPending
    /\ delivered[cur] = <<Response(TxOf(cur), "nil")>>

\* C16: every TransactionEnqueue call returns ErrQueueClosed or nil: none
\* reaches its push with q.queue closed. (Fails: the select on q.stop and the
\* push are two steps, and Stop and the worker's close(q.queue) can fall
\* between them; the push then panics.)
C16_EnqueueReturns ==
    \A i \in Items : epc[i] # "panic"

\* C17: from close(q.queue) on the worker only drains: it takes the buffered
\* entries oldest first, writes Response(nil, ErrQueueClosed) to each, runs
\* no exec and makes no TransactionByHash call, and returns only when the
\* buffer is empty.
C17_DrainRejectsAll ==
    /\ [](queueClosed => wpc \in {"drain", "resp", "close", "done"})
    /\ []((queueClosed /\ wpc \in {"resp", "close"}) =>
            (tx = NilTx /\ err = "ErrQueueClosed" /\ cur \notin executed))
    /\ []((queueClosed /\ wpc = "close") =>
            delivered[cur] = <<Response(NilTx, "ErrQueueClosed")>>)
    /\ [](wpc = "done" => (queueClosed /\ queue = <<>>))
    /\ [][queueClosed => (executed' = executed /\ polls' <= polls)]_vars
    /\ [][(wpc = "drain" /\ wpc' # "drain") =>
             \/ queue = <<>> /\ wpc' = "done"
             \/ /\ queue # <<>> /\ wpc' = "resp"
                /\ cur' = Head(queue) /\ queue' = Tail(queue)]_vars

\* The worker has returned after a drain that rejected two buffered entries.
C17_Witness ==
    /\ wpc = "done"
    /\ \E i, j \in Items :
          /\ i # j
          /\ {i, j} \cap executed = {}
          /\ delivered[i] = <<Response(NilTx, "ErrQueueClosed")>>
          /\ delivered[j] = <<Response(NilTx, "ErrQueueClosed")>>
          /\ respCloses[i] = 1 /\ respCloses[j] = 1

\* C20 as stated: the send of a QueueResponse can always complete, so the
\* worker is never held in q.resp. (Fails: a send on an unbuffered resp
\* channel waits for the caller's receive.)
C20_RespNeverBlocks ==
    (wpc = "resp" /\ ~crashed /\ respCloses[cur] = 0) => RespReady(cur)

\* The worker is in q.resp for an entry whose resp channel is unbuffered and
\* whose caller never receives.
HeldInResp == wpc = "resp" /\ respCap[cur] = 0 /\ ~receives[cur]

\* C20 amended: the send in q.resp holds the worker until the caller
\* receives: with an unbuffered resp channel and a caller that never
\* receives, the worker stays in that send, whatever Stop and the other
\* callers do; it takes no further entry, executes and answers nothing
\* more, does not close q.queue and does not return.
C20_RespHoldsWorker ==
    [][HeldInResp =>
         /\ HeldInResp'
         /\ UNCHANGED <<workerVars, respVars, queueClosed>>
         /\ \A k \in 1..Len(queue) : queue'[k] = queue[k]]_vars

\* The worker is held in q.resp while Stop has returned and an accepted
\* entry waits in the buffer.
C20_Witness ==
    /\ HeldInResp
    /\ ~crashed
    /\ StopReturned
    /\ \E i \in Items : InQueue(i) /\ epc[i] = "ok"

\* C19: with every caller receiving from its resp channel, once Stop has
\* closed q.stop the started worker eventually returns from Run, with the
\* buffer empty. (Fails: the push of a call that passed the stop check
\* panics on the closed q.queue, see C16, and the process ends with the
\* worker still in its drain.)
C19_StopEventuallyStopped ==
    []AllReceive =>
        ((stopClosed /\ wpc # "init") ~> (wpc = "done" /\ queue = <<>>))

====
